---------------------------- MODULE Spec2Model ----------------------------
(***************************************************************************)
(* Binary-split treemap of src/data-viz/chart-types.py                     *)
(* (draw_binary_treemap and its nested function recurse).                  *)
(*                                                                         *)
(* The call stack of recurse is explicit: one frame per active call, the   *)
(* last frame of `stack` being the running one.  Rectangle coordinates are *)
(* exact rationals [n, d] (the floating-point rounding of the program is   *)
(* left out: the properties below are stated in exact arithmetic).         *)
(***************************************************************************)
EXTENDS Integers, Sequences, FiniteSets

\* ------------------------------------------------------------------ bounds
MaxLen == 4
MaxVal == 2
MaxDepthLimit == 3

\* len(PALETTE)
PaletteLen == 12
\* a caller-supplied colors list shorter than the default palette
ShortPaletteLen == 3

\* ------------------------------------------------------- exact arithmetic
Abs(i) == IF i < 0 THEN 0 - i ELSE i

Max(a, b) == IF a >= b THEN a ELSE b

Min(a, b) == IF a <= b THEN a ELSE b

RECURSIVE GCD(_, _)
GCD(a, b) == IF b = 0 THEN a ELSE GCD(b, a % b)

\* the rational n/d in lowest terms, d > 0
Rat(n, d) ==
    LET s == IF d < 0 THEN 0 - 1 ELSE 1
        g == GCD(Abs(n), Abs(d))
    IN  [n |-> (s * n) \div g, d |-> (s * d) \div g]

FromInt(i) == [n |-> i, d |-> 1]

RAdd(a, b) == Rat(a.n * b.d + b.n * a.d, a.d * b.d)

RSub(a, b) == Rat(a.n * b.d - b.n * a.d, a.d * b.d)

RMul(a, b) == Rat(a.n * b.n, a.d * b.d)

RGeq(a, b) == a.n * b.d >= b.n * a.d

\* w * s / t for a rational w and the integer sums s, t
Scale(w, s, t) == Rat(w.n * s, w.d * t)

\* ------------------------------------------------------------ numpy pieces
RECURSIVE Sum(_)
Sum(arr) == IF arr = <<>> THEN 0 ELSE Head(arr) + Sum(Tail(arr))

\* np.cumsum: csum[i] = arr[1] + ... + arr[i]
CumSum(arr) == [i \in 1..Len(arr) |-> Sum(SubSeq(arr, 1, i))]

\* mutant: the filter keeps the zeros (vals >= 0)
FilterNonNegative(s) == SelectSeq(s, LAMBDA v : v >= 0)

\* vals[vals > 0]
FilterPositive(s) == SelectSeq(s, LAMBDA v : v > 0)

RECURSIVE Insert(_, _)
Insert(v, s) ==
    IF s = <<>> THEN <<v>>
    ELSE IF v <= Head(s) THEN <<v>> \o s
    ELSE <<Head(s)>> \o Insert(v, Tail(s))

RECURSIVE SortAsc(_)
SortAsc(s) == IF s = <<>> THEN <<>> ELSE Insert(Head(s), SortAsc(Tail(s)))

Reverse(s) == [i \in 1..Len(s) |-> s[Len(s) + 1 - i]]

\* np.sort(vals)[::-1]
SortDesc(s) == Reverse(SortAsc(s))

\* np.searchsorted(a, v), side = 'left', v = num/2: binary search for the
\* 0-based insertion index, a[mid] < v computed as 2 * a[mid] < num
RECURSIVE Bisect(_, _, _, _)
Bisect(a, num, lo, hi) ==
    IF lo >= hi THEN lo
    ELSE LET mid == lo + ((hi - lo) \div 2)
         IN  IF 2 * a[mid + 1] < num
             THEN Bisect(a, num, mid + 1, hi)
             ELSE Bisect(a, num, lo, mid)

SearchSortedHalf(a, num) == Bisect(a, num, 0, Len(a))

\* arr[i:j] of Python, 0-based, j exclusive, clipped to the array
Slice(arr, i, j) == SubSeq(arr, Min(i, Len(arr)) + 1, Min(j, Len(arr)))

\* -------------------------------------------------------------- the state
VARIABLES
    values,       \* the caller's list
    depth_limit,  \* the caller's depth_limit
    colors,       \* len(colors)
    root,         \* the rectangle of the outermost recurse call
    pc,           \* "start", "recurse", "done" or "skipped"
    vals,         \* the filtered, sorted array
    stack,        \* the active calls of recurse, innermost last
    ret,          \* the value the last finished call returned, NoRet if none
    patches       \* the rectangles added to the axes, in order

vars == <<values, depth_limit, colors, root, pc, vals, stack, ret, patches>>

NoRet == 0 - 1

Values == (0 - 1)..MaxVal

RECURSIVE SeqsUpTo(_)
SeqsUpTo(n) ==
    IF n = 0 THEN {<<>>}
    ELSE LET S == SeqsUpTo(n - 1)
         IN  S \cup {Append(s, v) : s \in {t \in S : Len(t) = n - 1}, v \in Values}

Rect(x, y, w, h) ==
    [x |-> FromInt(x), y |-> FromInt(y), w |-> FromInt(w), h |-> FromInt(h)]

\* recurse(0, 0, 1, 1, ...) of the program, and the wide and the tall root of
\* the function's contract
RootRects == {Rect(0, 0, 1, 1), Rect(0, 0, 2, 1), Rect(0, 0, 1, 4)}

Init ==
    /\ values \in SeqsUpTo(MaxLen)
    /\ depth_limit \in 0..MaxDepthLimit
    /\ colors \in {PaletteLen, ShortPaletteLen}
    /\ root \in RootRects
    /\ pc = "start"
    /\ vals = <<>>
    /\ stack = <<>>
    /\ ret = NoRet
    /\ patches = <<>>

\* ------------------------------------------------------------- the split
\* mutant: the depth test is depth >= depth_limit
BaseCaseAtLimit(arr, depth) == depth >= depth_limit \/ Len(arr) = 1

\* mutant: the depth test is depth > depth_limit + 1
BaseCaseLate(arr, depth) == depth > depth_limit + 1 \/ Len(arr) = 1

\* if depth > depth_limit or len(arr) == 1
BaseCase(arr, depth) == depth > depth_limit \/ Len(arr) = 1

\* mutant: searchsorted with side = 'right' (the elements <= total / 2)
split_idx_side_right(arr) ==
    Cardinality({j \in 1..Len(arr) : 2 * CumSum(arr)[j] <= Sum(arr)})

split_idx(arr) == SearchSortedHalf(CumSum(arr), Sum(arr))

left(arr) == Slice(arr, 0, Max(1, split_idx(arr)))

\* mutant: the right slice starts at split_idx, without the clamp
right_unclamped(arr) == Slice(arr, split_idx(arr), Len(arr))

right(arr) == Slice(arr, Max(1, split_idx(arr)), Len(arr))

\* mutant: the extent follows the number of weights, not their sum
LeftExtentByCount(wh, arr) == Scale(wh, Len(left(arr)), Len(arr))

\* lw = w * left.sum() / total, lh = h * left.sum() / total
LeftExtent(wh, arr) == Scale(wh, Sum(left(arr)), Sum(arr))

\* mutant: the direction alternates with the depth
VerticalByDepth(f) == f.depth % 2 = 0

Vertical(f) == RGeq(f.w, f.h)

\* a call of recurse at its first statement; lo is the 0-based offset of the
\* view arr into vals
Call(x, y, w, h, arr, depth, color_idx, lo) ==
    [x |-> x, y |-> y, w |-> w, h |-> h, arr |-> arr, depth |-> depth,
     color_idx |-> color_idx, lo |-> lo, at |-> "entry"]

LeftCall(f) ==
    IF Vertical(f)
    THEN Call(f.x, f.y, LeftExtent(f.w, f.arr), f.h, left(f.arr),
              f.depth + 1, f.color_idx, f.lo)
    ELSE Call(f.x, f.y, f.w, LeftExtent(f.h, f.arr), left(f.arr),
              f.depth + 1, f.color_idx, f.lo)

\* mutant: the right rectangle is not moved behind the left one
RightCallNoOffset(f) ==
    IF Vertical(f)
    THEN LET lw == LeftExtent(f.w, f.arr)
         IN  Call(f.x, f.y, RSub(f.w, lw), f.h, right(f.arr),
                  f.depth + 1, f.color_idx, f.lo + Len(left(f.arr)))
    ELSE LET lh == LeftExtent(f.h, f.arr)
         IN  Call(f.x, f.y, f.w, RSub(f.h, lh), right(f.arr),
                  f.depth + 1, f.color_idx, f.lo + Len(left(f.arr)))

\* mutant: the second call is given the left group again
RightCallLeftAgain(f) ==
    IF Vertical(f)
    THEN LET lw == LeftExtent(f.w, f.arr)
         IN  Call(RAdd(f.x, lw), f.y, RSub(f.w, lw), f.h, left(f.arr),
                  f.depth + 1, f.color_idx, f.lo + Len(left(f.arr)))
    ELSE LET lh == LeftExtent(f.h, f.arr)
         IN  Call(f.x, RAdd(f.y, lh), f.w, RSub(f.h, lh), left(f.arr),
                  f.depth + 1, f.color_idx, f.lo + Len(left(f.arr)))

RightCall(f) ==
    IF Vertical(f)
    THEN LET lw == LeftExtent(f.w, f.arr)
         IN  Call(RAdd(f.x, lw), f.y, RSub(f.w, lw), f.h, right(f.arr),
                  f.depth + 1, f.color_idx, f.lo + Len(left(f.arr)))
    ELSE LET lh == LeftExtent(f.h, f.arr)
         IN  Call(f.x, RAdd(f.y, lh), f.w, RSub(f.h, lh), right(f.arr),
                  f.depth + 1, f.color_idx, f.lo + Len(left(f.arr)))

Top == stack[Len(stack)]

Pop == SubSeq(stack, 1, Len(stack) - 1)

\* the running call is at the first statement of recurse
AtEntry == pc = "recurse" /\ stack # <<>> /\ Top.at = "entry"

\* the call the running frame made at `at` has returned a value
Returned(at) == pc = "recurse" /\ stack # <<>> /\ Top.at = at /\ ret # NoRet

\* the outermost call of recurse has returned
RootReturned == pc = "recurse" /\ stack = <<>>

\* ------------------------------------------------------------ the actions
\* no positive value: the axes are switched off and the function returns
Skip ==
    /\ pc = "start"
    /\ FilterPositive(values) = <<>>
    /\ pc' = "skipped"
    /\ UNCHANGED <<values, depth_limit, colors, root, vals, stack, ret, patches>>

\* filter, sort largest-first, enter recurse(x, y, w, h, vals, 0, 0)
Begin ==
    /\ pc = "start"
    /\ FilterPositive(values) # <<>>
    /\ vals' = SortDesc(FilterPositive(values))
    /\ stack' = <<Call(root.x, root.y, root.w, root.h, vals', 0, 0, 0)>>
    /\ pc' = "recurse"
    /\ UNCHANGED <<values, depth_limit, colors, root, ret, patches>>

\* the base case: paint the cell and return color_idx + 1
Paint ==
    /\ AtEntry
    /\ BaseCase(Top.arr, Top.depth)
    /\ patches' = Append(patches,
            [x |-> Top.x, y |-> Top.y, w |-> Top.w, h |-> Top.h,
             c |-> Top.color_idx % colors,
             color_idx |-> Top.color_idx, arr |-> Top.arr,
             depth |-> Top.depth, lo |-> Top.lo])
    /\ ret' = Top.color_idx + 1
    /\ stack' = Pop
    /\ UNCHANGED <<values, depth_limit, colors, root, pc, vals>>

\* the split case: choose the direction and call recurse on the left group
Split ==
    /\ AtEntry
    /\ ~BaseCase(Top.arr, Top.depth)
    /\ stack' = Append([stack EXCEPT ![Len(stack)].at = "left"], LeftCall(Top))
    /\ ret' = NoRet
    /\ UNCHANGED <<values, depth_limit, colors, root, pc, vals, patches>>

\* mutant: the result of the left call is dropped, the right call starts
\* with the cursor the left call started with
LeftReturnsDropsResult ==
    /\ Returned("left")
    /\ LET f == [Top EXCEPT !.at = "right"]
       IN  stack' = Append([stack EXCEPT ![Len(stack)] = f], RightCall(f))
    /\ ret' = NoRet
    /\ UNCHANGED <<values, depth_limit, colors, root, pc, vals, patches>>

\* the left call returned: color_idx = its result, call recurse on the right
LeftReturns ==
    /\ Returned("left")
    /\ LET f == [Top EXCEPT !.color_idx = ret, !.at = "right"]
       IN  stack' = Append([stack EXCEPT ![Len(stack)] = f], RightCall(f))
    /\ ret' = NoRet
    /\ UNCHANGED <<values, depth_limit, colors, root, pc, vals, patches>>

\* the right call returned: color_idx = its result, return color_idx
RightReturns ==
    /\ Returned("right")
    /\ stack' = Pop
    /\ UNCHANGED <<values, depth_limit, colors, root, pc, vals, ret, patches>>

\* the outermost call returned: set the limits and the title
Finish ==
    /\ RootReturned
    /\ pc' = "done"
    /\ UNCHANGED <<values, depth_limit, colors, root, vals, stack, ret, patches>>

Next == Skip \/ Begin \/ Paint \/ Split \/ LeftReturns \/ RightReturns \/ Finish

Spec == Init /\ [][Next]_vars


\* ------------------------------------------------- vocabulary of the claims
Done == pc = "done"

Finished == pc \in {"done", "skipped"}

Area(r) == RMul(r.w, r.h)

RGt(a, b) == a.n * b.d > b.n * a.d

RMin(a, b) == IF RGeq(a, b) THEN b ELSE a

RMax(a, b) == IF RGeq(a, b) THEN a ELSE b

Zero == FromInt(0)

\* the positions of the caller's list that hold a strictly positive value
PositiveAt == {i \in DOMAIN values : values[i] > 0}

\* the frames that have split, each with the child call it is waiting for
SplitNodes == {i \in 1..(Len(stack) - 1) : stack[i].at \in {"left", "right"}}

Tall(f) == RGt(f.h, f.w)

\* the area of the intersection of two rectangles
Overlap(p, q) ==
    LET ow == RSub(RMin(RAdd(p.x, p.w), RAdd(q.x, q.w)), RMax(p.x, q.x))
        oh == RSub(RMin(RAdd(p.y, p.h), RAdd(q.y, q.h)), RMax(p.y, q.y))
    IN  IF RGt(ow, Zero) /\ RGt(oh, Zero) THEN RMul(ow, oh) ELSE Zero

RECURSIVE AreaSum(_)
AreaSum(ps) == IF ps = <<>> THEN Zero ELSE RAdd(Area(Head(ps)), AreaSum(Tail(ps)))

Inside(p, r) ==
    /\ RGeq(p.w, Zero) /\ RGeq(p.h, Zero)
    /\ RGeq(p.x, r.x) /\ RGeq(p.y, r.y)
    /\ RGeq(RAdd(r.x, r.w), RAdd(p.x, p.w))
    /\ RGeq(RAdd(r.y, r.h), RAdd(p.y, p.h))

\* ---------------------------------------------------------------------- C1
\* C1: area proportionality.  Every leaf emitted so far has
\* leafArea * totalWeight = leafWeight * rootArea, leafWeight being the sum of
\* the weights of the sub-sequence the leaf holds.
AreaProportional ==
    \A j \in 1..Len(patches) :
        RMul(Area(patches[j]), FromInt(Sum(vals)))
            = RMul(FromInt(Sum(patches[j].arr)), Area(root))

\* a finished partition of a non-square root with a merged leaf and at least
\* three leaves
AreaProportionalWitness ==
    /\ Done /\ root = Rect(0, 0, 1, 4) /\ Len(patches) >= 3
    /\ \E j \in 1..Len(patches) : Len(patches[j].arr) >= 2

\* ---------------------------------------------------------------------- C2
\* C2: tiling completeness.  When the partition has finished, every leaf lies
\* inside the root rectangle, the leaf areas sum to the root area and any two
\* distinct leaves intersect in area 0.
TilingComplete ==
    Done =>
        /\ \A j \in 1..Len(patches) : Inside(patches[j], root)
        /\ AreaSum(patches) = Area(root)
        /\ \A i, j \in 1..Len(patches) :
               i < j => Overlap(patches[i], patches[j]) = Zero

\* a finished partition into four leaves, split in both directions
TilingCompleteWitness ==
    /\ Done /\ Len(patches) = 4
    /\ \E i, j \in 1..4 : patches[i].x # patches[j].x
    /\ \E i, j \in 1..4 : patches[i].y # patches[j].y

\* ---------------------------------------------------------------------- C3
\* C3: leaf count with the depth limit out of reach.  With n >= 1 strictly
\* positive input weights and depth_limit >= n - 1 the finished partition has
\* exactly n leaves, each holding one weight, and every positive input weight
\* is held by exactly one leaf (as many leaves hold v as inputs equal v).
LeafPerWeight ==
    (Done /\ depth_limit >= Cardinality(PositiveAt) - 1) =>
        /\ Len(patches) = Cardinality(PositiveAt)
        /\ \A j \in 1..Len(patches) : Len(patches[j].arr) = 1
        /\ \A v \in 1..MaxVal :
               Cardinality({j \in 1..Len(patches) : patches[j].arr = <<v>>})
                   = Cardinality({i \in PositiveAt : values[i] = v})

\* four distinct-enough positive weights with depth_limit = n - 1
LeafPerWeightWitness ==
    /\ Done /\ Cardinality(PositiveAt) = 4 /\ depth_limit = 3
    /\ Len(patches) = 4 /\ Len(values) = 4
    /\ values[1] < values[2]

\* ---------------------------------------------------------------------- C4
\* C4 as stated: with depth_limit = 0 and n > 0 positive weights the finished
\* partition has exactly one leaf.
OneLeafAtDepthLimitZero ==
    (Done /\ depth_limit = 0) => Len(patches) = 1

\* C4 as amended: with depth_limit = 0 the root call (depth 0, not > 0) still
\* splits when n >= 2 and its two children, at depth 1, are leaves: the
\* finished partition has 1 leaf when n = 1 and exactly 2 leaves when n >= 2.
TwoLeavesAtDepthLimitZero ==
    (Done /\ depth_limit = 0) =>
        /\ Len(patches) = Min(Cardinality(PositiveAt), 2)
        /\ \A j \in 1..Len(patches) :
               patches[j].depth = (IF Cardinality(PositiveAt) = 1 THEN 0 ELSE 1)

TwoLeavesAtDepthLimitZeroWitness ==
    /\ Done /\ depth_limit = 0
    /\ Cardinality(PositiveAt) >= 3 /\ Len(patches) = 2

\* ---------------------------------------------------------------------- C5
\* the smallest prefix length whose cumulative sum is >= total / 2
SmallestHalfPrefix(arr) ==
    CHOOSE k \in 1..Len(arr) :
        /\ 2 * Sum(SubSeq(arr, 1, k)) >= Sum(arr)
        /\ \A j \in 1..(k - 1) : 2 * Sum(SubSeq(arr, 1, j)) < Sum(arr)

\* the number of non-empty prefixes whose cumulative sum is < total / 2
PrefixesBelowHalf(arr) ==
    Cardinality({j \in 1..Len(arr) : 2 * Sum(SubSeq(arr, 1, j)) < Sum(arr)})

\* the groups of split node i are the first k elements and the rest
GroupsAt(i, k) ==
    LET f == stack[i]
        c == stack[i + 1]
    IN  IF f.at = "left"
        THEN c.arr = SubSeq(f.arr, 1, k)
        ELSE c.arr = SubSeq(f.arr, k + 1, Len(f.arr))

ColourCursorOrder ==
    /\ \A j \in 1..Len(patches) :
           /\ patches[j].color_idx = j - 1
           /\ patches[j].c = (j - 1) % colors
    /\ \A i, j \in 1..Len(patches) :
           i < j => patches[i].lo + Len(patches[i].arr) <= patches[j].lo
    /\ \A i \in 1..Len(stack) :
           /\ stack[i].at = "entry" => stack[i].color_idx = Len(patches)
           /\ stack[i].at = "right" => stack[i].color_idx <= Len(patches)
           /\ (stack[i].at = "right" /\ i < Len(stack)
                  /\ stack[i + 1].at = "entry")
                  => stack[i + 1].color_idx = stack[i].color_idx
    /\ ret # NoRet => ret = Len(patches)
    /\ Done => (ret = Len(patches) /\ Len(patches) >= 1)

\* a finished partition with more leaves than colours: the palette wrapped
ColourCursorOrderWitness ==
    /\ Done /\ Len(patches) > colors
    /\ patches[Len(patches)].c = 0

\* ---------------------------------------------------------------------- C7
\* the rectangle of child c of split node f, from f's own rectangle: the
\* left group takes the share leftSum / total of the width (w >= h) or of the
\* height (otherwise), the right group the rest, offset by the left extent
ChildRectFrom(f, c) ==
    LET total == Sum(f.arr)
        leftSum == IF f.at = "left" THEN Sum(c.arr) ELSE total - Sum(c.arr)
        lw == Scale(f.w, leftSum, total)
        lh == Scale(f.h, leftSum, total)
    IN  IF RGeq(f.w, f.h)
        THEN IF f.at = "left"
             THEN c.x = f.x /\ c.y = f.y /\ c.w = lw /\ c.h = f.h
             ELSE c.x = RAdd(f.x, lw) /\ c.y = f.y
                      /\ c.w = RSub(f.w, lw) /\ c.h = f.h
        ELSE IF f.at = "left"
             THEN c.x = f.x /\ c.y = f.y /\ c.w = f.w /\ c.h = lh
             ELSE c.x = f.x /\ c.y = RAdd(f.y, lh)
                      /\ c.w = f.w /\ c.h = RSub(f.h, lh)

\* C7: split orientation.  Every split node cuts its own rectangle: along the
\* width when w >= h, along the height otherwise, whatever its depth and its
\* parent's direction.  Two equal weights on a root with w >= h end as two
\* leaves of width w / 2 and full height, side by side.
SplitOrientation ==
    /\ \A i \in SplitNodes : ChildRectFrom(stack[i], stack[i + 1])
    /\ (Done /\ Len(vals) = 2 /\ vals[1] = vals[2] /\ RGeq(root.w, root.h)) =>
           /\ Len(patches) = 2
           /\ patches[1].w = Scale(root.w, 1, 2) /\ patches[2].w = patches[1].w
           /\ patches[1].h = root.h /\ patches[2].h = root.h
           /\ patches[1].x = root.x /\ patches[2].x = RAdd(root.x, patches[1].w)
           /\ patches[1].y = root.y /\ patches[2].y = root.y

\* a tall root split along its height whose lower child, still tall at depth
\* 1, is split along its height again (no alternation by depth), the right
\* group of that child being under way
SplitOrientationWitness ==
    /\ Len(stack) >= 3
    /\ Tall(stack[1]) /\ stack[1].at = "right"
    /\ Tall(stack[2]) /\ stack[2].at = "right"
    /\ stack[3].x = stack[1].x /\ RGt(stack[3].y, stack[2].y)

\* ---------------------------------------------------------------------- C8
\* C8: degenerate input.  With no strictly positive value in the list the
\* call goes from its start straight to its normal return, never enters
\* recurse and paints nothing; and the list is skipped in no other case.
\* Values <= 0 mixed with positive ones are dropped: the working array holds
\* as many values as the list holds positive ones, all positive, and only
\* positive weights reach a leaf.
DegenerateInput ==
    /\ (PositiveAt = {} /\ pc # "start") =>
           (pc = "skipped" /\ stack = <<>> /\ patches = <<>> /\ vals = <<>>)
    /\ pc = "skipped" => PositiveAt = {}
    /\ pc \in {"recurse", "done"} =>
           /\ Len(vals) = Cardinality(PositiveAt)
           /\ \A i \in 1..Len(vals) : vals[i] > 0
    /\ \A j \in 1..Len(patches) :
           \A i \in 1..Len(patches[j].arr) : patches[j].arr[i] > 0

\* a non-empty list of non-positive values, zero and negative, was skipped
DegenerateInputWitness ==
    /\ pc = "skipped" /\ Len(values) >= 2
    /\ \E i, j \in DOMAIN values : values[i] = 0 /\ values[j] < 0

\* ---------------------------------------------------------------------- C9
\* no call is deeper than depth_limit + 1, none has split beyond depth_limit,
\* and a leaf holds two or more weights only beyond depth_limit
DepthBounded ==
    /\ \A i \in 1..Len(stack) :
           /\ stack[i].depth <= depth_limit + 1
           /\ stack[i].at # "entry" => stack[i].depth <= depth_limit
           /\ stack[i].depth = i - 1
    /\ \A j \in 1..Len(patches) :
           /\ patches[j].depth <= depth_limit + 1
           /\ Len(patches[j].arr) >= 2 => patches[j].depth > depth_limit

\* a call entered beyond depth_limit paints one leaf over its whole rectangle,
\* holding all its weights, and returns
MergedLeafStep ==
    (AtEntry /\ Top.depth > depth_limit) =>
        /\ Len(patches') = Len(patches) + 1
        /\ stack' = Pop
        /\ LET p == patches'[Len(patches')]
           IN  /\ p.x = Top.x /\ p.y = Top.y /\ p.w = Top.w /\ p.h = Top.h
               /\ p.arr = Top.arr

\* the steps a call with m weights takes at most: m leaves and m - 1 splits
\* of three steps each
Work(m) == 4 * m - 3

\* the steps frame f still owes: its own when it has not started, the left
\* return, the right call and the right return when the left call is under
\* way, the right return when the right call is under way
Owed(f) ==
    IF f.at = "entry" THEN Work(Len(f.arr))
    ELSE IF f.at = "left" THEN 2 + Work(Len(right(f.arr)))
    ELSE 1

RECURSIVE OwedBy(_)
OwedBy(fs) == IF fs = <<>> THEN 0 ELSE Owed(Head(fs)) + OwedBy(Tail(fs))

\* a bound on the steps left before the call has ended
Rank ==
    IF pc = "start" THEN 4 * Len(values) + 2
    ELSE IF pc = "recurse"
         THEN 1 + OwedBy(stack)
    ELSE 0

\* some statement of the call can run: the guard of one of the actions holds
CanStep ==
    \/ pc = "start"
    \/ AtEntry
    \/ Returned("left") \/ Returned("right")
    \/ RootReturned

\* C9: depth limit and termination.  Every step of a call lowers a natural
\* number and a call that has not ended (finished or skipped) can step, so
\* every call ends; no split happens beyond depth_limit, so calls and leaves
\* have depth <= depth_limit + 1; a call beyond depth_limit paints one leaf
\* over its whole rectangle even with two or more weights, and only such a
\* leaf holds two or more weights.
DepthLimitTerminates ==
    /\ []DepthBounded
    /\ [][MergedLeafStep]_vars
    /\ [](Rank >= 0 /\ (Finished \/ CanStep))
    /\ [][Rank' < Rank]_vars

\* a finished partition with a leaf of two or more weights at depth
\* depth_limit + 1 >= 2
DepthLimitTerminatesWitness ==
    /\ Done /\ depth_limit >= 1
    /\ \E j \in 1..Len(patches) :
           Len(patches[j].arr) >= 2 /\ patches[j].depth = depth_limit + 1

\* --------------------------------------------------------------------- C10
\* the frame's array is the run of vals that starts at offset lo
RunOfVals(f) ==
    /\ f.arr # <<>>
    /\ f.lo >= 0 /\ f.lo + Len(f.arr) <= Len(vals)
    /\ \A j \in 1..Len(f.arr) : f.arr[j] = vals[f.lo + j]

\* C10: non-empty contiguous groups.  The sorted sequence is descending;
\* every call holds a non-empty run of it, of positive sum; at a split node
\* the left group starts where the parent starts and is shorter than it, the
\* right group is non-empty, starts behind a non-empty left group and ends
\* where the parent ends; the finished leaves cover the sequence run by run.
ContiguousGroups ==
    /\ \A i \in 1..(Len(vals) - 1) : vals[i] >= vals[i + 1]
    /\ \A i \in 1..Len(stack) : RunOfVals(stack[i]) /\ Sum(stack[i].arr) > 0
    /\ \A i \in SplitNodes :
           LET f == stack[i]
               c == stack[i + 1]
           IN  /\ Len(f.arr) >= 2
               /\ Len(c.arr) >= 1 /\ Len(c.arr) < Len(f.arr)
               /\ IF f.at = "left"
                  THEN c.lo = f.lo
                  ELSE c.lo > f.lo /\ c.lo + Len(c.arr) = f.lo + Len(f.arr)
    /\ \A j \in 1..Len(patches) :
           /\ RunOfVals(patches[j])
           /\ patches[j].lo = (IF j = 1 THEN 0
                               ELSE patches[j - 1].lo + Len(patches[j - 1].arr))
    /\ (Done /\ patches # <<>>) =>
           patches[Len(patches)].lo + Len(patches[Len(patches)].arr) = Len(vals)

\* a split node whose first weight alone reaches half the total (the search
\* returns 0) is waiting for its right group of two or more weights
ContiguousGroupsWitness ==
    \E i \in SplitNodes :
        /\ stack[i].at = "right"
        /\ 2 * stack[i].arr[1] >= Sum(stack[i].arr)
        /\ Len(stack[i + 1].arr) >= 2
        /\ i >= 2

=============================================================================
